---- MODULE Spec2Model ----
(***************************************************************************)
(* A model of the hyper_samples extractor: BaseExtractor                   *)
(* (src/base_extractor.py) and BigQueryExtractor                           *)
(* (src/bigquery_extractor.py).  One invocation of one public operation    *)
(* runs on a single thread; the Tableau server completes the submitted     *)
(* patch job concurrently with the client's poll loop.                     *)
(*                                                                         *)
(* Python values that may be None are records: None, Str(s), List(items).  *)
(* JSON keys "source-col", "target-schema", ... are written with "_".      *)
(***************************************************************************)
EXTENDS Integers, Sequences, FiniteSets, TLC

VARIABLES
    pc,                  \* position of the client thread
    op,                  \* the public operation invoked and its arguments
    output_hyper_files,  \* files the current for loop has not iterated yet
    publish_mode,        \* local publish_mode of load_sample/export_load/append
    path_to_database,    \* update_datasource_from_hyper_file: changeset file
    json_request,        \* update_datasource_from_hyper_file: action document
    file_upload_id,      \* update_datasource_from_hyper_file: upload handle
    ds_id,               \* update_datasource_from_hyper_file: datasource id
    async_job_id,        \* id returned by REST.patch_datasource
    completed_at,        \* wait_for_async_job local
    finish_code,         \* wait_for_async_job local
    returned_code,       \* value returned by wait_for_async_job
    server_job,          \* the server's job object (None before submission)
    datasources,         \* names of the datasources the server knows
    staging_bucket,      \* the extractor's staging_bucket attribute
    calls,               \* remote calls made so far, in order
    sleeps,              \* number of time.sleep calls in wait_for_async_job
    local_files,         \* names of the files in the working directory
    bucket_blobs,        \* blobs under the staging prefix of the bucket
    blobs,               \* export_load: blobs the for loop has not iterated yet
    result               \* outcome of the operation

vars == <<pc, op, output_hyper_files, publish_mode, path_to_database,
          json_request, file_upload_id, ds_id, async_job_id, completed_at,
          finish_code, returned_code, server_job, datasources, calls, sleeps,
          local_files, bucket_blobs, blobs, staging_bucket, result>>

udfhfVars == <<path_to_database, json_request, file_upload_id, ds_id, async_job_id>>
waitVars == <<completed_at, finish_code, returned_code, sleeps>>
serverVars == <<server_job, datasources, staging_bucket>>
fsVars == <<local_files, bucket_blobs, blobs>>

(***************************************************************************)
(* Bounds of the model.                                                    *)
(***************************************************************************)
MaxPolls == 2    \* polls that may observe the job still pending
MaxPairs == 2    \* longest match_columns list
MaxBlobs == 2    \* most blobs a bulk export leaves in the staging bucket

(***************************************************************************)
(* Program constants.                                                      *)
(***************************************************************************)
MAX_ROWS_PER_FILE == 100000
MAX_QUERY_SIZE == 104857600

(***************************************************************************)
(* Python values.                                                          *)
(***************************************************************************)
None == [t |-> "None"]
Str(s) == [t |-> "str", v |-> s]
List(items) == [t |-> "list", items |-> items]
Path(name, rows) == [t |-> "Path", name |-> name, rows |-> rows]

\* "{}".format(x)
Format(x) == IF x = None THEN "None" ELSE x.v

Unset == [t |-> "unset"]

(***************************************************************************)
(* Outcomes of an operation.                                               *)
(***************************************************************************)
Running == [t |-> "running"]
Returned == [t |-> "returned"]
Raised(type, args) == [t |-> "raised", type |-> type, args |-> args]

(***************************************************************************)
(* Inputs.                                                                 *)
(***************************************************************************)
SeqsUpTo(S, n) == UNION {[1..k -> S] : k \in 0..n}

Pairs == {<<"id", "row_id">>, <<"ts", "updated_at">>}

MatchColumnsInputs == {None} \cup {List(s) : s \in SeqsUpTo(Pairs, MaxPairs)}

\* The sliding-window condition of the docstring, and a keyed raw condition.
RawWindow ==
    [op |-> "<", target_col |-> "col1",
     const |-> [type |-> "datetime", v |-> "2020-06-00"]]

RawKeyed == [op |-> "=", source_col |-> "key", target_col |-> "key"]

RawConditions == {None, RawWindow, RawKeyed}

ActionInputs == {"UPDATE", "DELETE", "UPSERT", "update"}

FinishCodes == {None, Str("0"), Str("1")}

JobIds == {"job-a", "job-b"}

TableNames == {None, Str("updated_rows")}

(***************************************************************************)
(* update_datasource_from_hyper_file: building the condition and the       *)
(* action document (base_extractor.py, lines 295-437).                     *)
(***************************************************************************)
DefaultAction == "UPDATE"

Leaf(match_pair) ==
    [op |-> "=", source_col |-> match_pair[1], target_col |-> match_pair[2]]

match_conditions_args(match_columns) ==
    [i \in 1..Len(match_columns.items) |-> Leaf(match_columns.items[i])]

\* match_conditions_args[0] of an empty list raises IndexError (line 308).
ConditionRaisesIndexError(match_columns) ==
    match_columns # None /\ Len(match_columns.items) = 0

\* A builder that wraps a single pair in an "and" as well.
BuildCondition_AlwaysAnd(match_columns, match_conditions_json) ==
    IF match_columns # None
    THEN [op |-> "and", args |-> match_conditions_args(match_columns)]
    ELSE match_conditions_json

\* The value of match_conditions_json after lines 295-308.
BuildCondition(match_columns, match_conditions_json) ==
    IF match_columns # None
    THEN IF Len(match_conditions_args(match_columns)) > 1
         THEN [op |-> "and", args |-> match_conditions_args(match_columns)]
         ELSE match_conditions_args(match_columns)[1]
    ELSE match_conditions_json

KnownAction(action) == action = "UPDATE" \/ action = "DELETE"

\* json_request of lines 347-431, for a known action.
BuildRequest(path, changeset_table_name, action, condition) ==
    IF action = "UPDATE"
    THEN [actions |-> <<[action |-> "update",
                         source_schema |-> "Extract",
                         source_table |-> changeset_table_name,
                         target_schema |-> "Extract",
                         target_table |-> "Extract",
                         condition |-> condition]>>]
    ELSE IF path = None
    THEN [actions |-> <<[action |-> "delete",
                         target_schema |-> "Extract",
                         target_table |-> "Extract",
                         condition |-> condition]>>]
    ELSE [actions |-> <<[action |-> "delete",
                         source_schema |-> "Extract",
                         source_table |-> changeset_table_name,
                         target_schema |-> "Extract",
                         target_table |-> "Extract",
                         condition |-> condition]>>]

\* A loop that polls once and leaves.
LoopContinues_Once(c) == FALSE

\* The loop test of wait_for_async_job (line 148).
LoopContinues(c) == c = None

\* A test that lets a missing finish code pass.
JobSucceeded_OrMissing(code) == code = Str("0") \/ code = None

\* The test of line 457, negated: the job is taken to have succeeded.
JobSucceeded(code) == code = Str("0")

(***************************************************************************)
(* The schema mapper (bigquery_extractor.py, lines 59-136).                *)
(***************************************************************************)
SqlTypeMap ==
    [BOOL |-> "bool", BYTES |-> "bytes", DATE |-> "date",
     DATETIME |-> "timestamp", INT64 |-> "big_int", INTEGER |-> "int",
     NUMERIC |-> "numeric(18,9)", FLOAT64 |-> "double", STRING |-> "text",
     TIME |-> "time", TIMESTAMP |-> "timestamp_tz"]

\* hyper_sql_type: the mapped type, or None where the code raises LookupError.
hyper_sql_type(source_column) ==
    IF source_column.field_type \in DOMAIN SqlTypeMap
    THEN Str(SqlTypeMap[source_column.field_type])
    ELSE None

\* What the loop body of hyper_table_definition does with one field.
FieldOutcome(source_field) ==
    IF hyper_sql_type(source_field) = None THEN "LookupError"
    ELSE IF source_field.mode = "REPEATED" THEN "HyperSQLTypeMappingError"
    ELSE "ok"

\* A column that is nullable whatever the mode.
Column_AlwaysNullable(source_field) ==
    [name |-> source_field.name,
     type |-> hyper_sql_type(source_field).v,
     nullable |-> TRUE]

\* The target column of lines 112-131: NOT_NULLABLE for a REQUIRED field,
\* the library's default (nullable) otherwise.
Column(source_field) ==
    [name |-> source_field.name,
     type |-> hyper_sql_type(source_field).v,
     nullable |-> source_field.mode # "REQUIRED"]

FailingFields(schema) == {i \in 1..Len(schema) : FieldOutcome(schema[i]) # "ok"}

FirstFailing(schema) ==
    CHOOSE i \in FailingFields(schema) : \A j \in FailingFields(schema) : i <= j

\* hyper_table_definition: a table definition, or the error of the first
\* field the loop cannot map.
hyper_table_definition(schema, hyper_table_name) ==
    IF FailingFields(schema) # {}
    THEN Raised(FieldOutcome(schema[FirstFailing(schema)]), <<>>)
    ELSE [t |-> "TableDefinition",
          table_name |-> <<"Extract", hyper_table_name>>,
          columns |-> [i \in 1..Len(schema) |-> Column(schema[i])]]

(***************************************************************************)
(* The extract file writers (base_extractor.py, lines 162-239): one file   *)
(* named temp.hyper that receives every row.                               *)
(***************************************************************************)
query_result_to_hyper_files(n_rows) == <<Path("temp.hyper", n_rows)>>

csv_to_hyper_files(n_rows) == <<Path("temp.hyper", n_rows)>>

(***************************************************************************)
(* Inputs of the query path.                                               *)
(***************************************************************************)
Estimates == {MAX_QUERY_SIZE, MAX_QUERY_SIZE + 1}

RowCounts == {0, 1, MAX_ROWS_PER_FILE, MAX_ROWS_PER_FILE + 1, 250000}

FieldTypes == {"STRING", "INT64", "GEOGRAPHY"}

FieldModes == {"NULLABLE", "REQUIRED", "REPEATED"}

ColumnNames == <<"c1", "c2">>

\* Source tables of one or two columns.
Schemas ==
    UNION {{[i \in 1..k |-> [name |-> ColumnNames[i],
                             field_type |-> ty[i],
                             mode |-> md[i]]] :
              ty \in [1..k -> FieldTypes], md \in [1..k -> FieldModes]} :
           k \in 1..Len(ColumnNames)}

\* Inputs of a direct call of hyper_table_definition: tables of up to
\* MaxCols columns over every mapped native type and two unmapped ones.
MaxCols == 2

SourceTypes == DOMAIN SqlTypeMap \cup {"GEOGRAPHY", "RECORD"}

FieldName(i) == "c" \o ToString(i)

SourceTables ==
    UNION {{[i \in 1..k |-> [name |-> FieldName(i),
                             field_type |-> ty[i],
                             mode |-> md[i]]] :
              ty \in [1..k -> SourceTypes], md \in [1..k -> FieldModes]} :
           k \in 0..MaxCols}

PublishModes == {"CreateNew", "Overwrite", "Append"}

Call(api) == [api |-> api]

\* The dry run of lines 148-150, with the estimate it reports.
DryRun(estimate) ==
    [api |-> "bq.query.dry_run", total_bytes_processed |-> estimate]

\* A size test that never trips.
ExceedsLimit_Never(estimate) == FALSE

\* The size test of line 153.
ExceedsLimit(estimate) == estimate > MAX_QUERY_SIZE

\* query_to_hyper_files (bigquery_extractor.py, lines 138-169): the remote
\* calls it makes, and the files it returns or the error it raises.
query_to_hyper_files(estimate, schema, n_rows, hyper_table_name) ==
    IF ExceedsLimit(estimate)
    THEN [calls |-> <<DryRun(estimate)>>,
          outcome |-> Raised("QuerySizeLimitError", <<>>),
          files |-> <<>>]
    ELSE IF hyper_table_definition(schema, hyper_table_name).t = "raised"
    THEN [calls |-> <<DryRun(estimate), Call("bq.query"),
                      Call("bq.get_table")>>,
          outcome |-> hyper_table_definition(schema, hyper_table_name),
          files |-> <<>>]
    ELSE [calls |-> <<DryRun(estimate), Call("bq.query"),
                      Call("bq.get_table"),
                      [api |-> "bq.list_rows", rows |-> n_rows]>>,
          outcome |-> Returned,
          files |-> query_result_to_hyper_files(n_rows)]

(***************************************************************************)
(* The initial state: an extractor object exists and no operation has      *)
(* been invoked.  Neither __init__ assigns staging_bucket, so the          *)
(* attribute exists only where the caller assigned it.                     *)
(***************************************************************************)
Init ==
    /\ pc = "idle"
    /\ op = [name |-> "none"]
    /\ output_hyper_files = <<>>
    /\ publish_mode = "CreateNew"
    /\ path_to_database = None
    /\ json_request = None
    /\ file_upload_id = None
    /\ ds_id = None
    /\ async_job_id = None
    /\ completed_at = None
    /\ finish_code = None
    /\ returned_code = Unset
    /\ server_job = None
    /\ datasources \in {{}, {"Orders"}}
    /\ staging_bucket \in {Unset, Str("emea_se")}
    /\ calls = <<>>
    /\ sleeps = 0
    /\ local_files = {}
    /\ bucket_blobs = {}
    /\ blobs = <<>>
    /\ result = Running

(***************************************************************************)
(* update_datasource_from_hyper_file.                                      *)
(***************************************************************************)
\* Lines 295-439: build the condition and the document, or raise; nothing
\* remote happens here.
UdfhfEnter(path, match_columns, match_conditions_json, changeset_table_name, action) ==
    IF ConditionRaisesIndexError(match_columns)
    THEN /\ result' = Raised("IndexError", <<>>)
         /\ pc' = "done"
         /\ UNCHANGED <<path_to_database, json_request, file_upload_id>>
    ELSE IF ~KnownAction(action)
    THEN /\ result' = Raised("Exception", <<"Unknown action", action>>)
         /\ pc' = "done"
         /\ UNCHANGED <<path_to_database, json_request, file_upload_id>>
    ELSE /\ json_request' =
               BuildRequest(path, changeset_table_name, action,
                            BuildCondition(match_columns, match_conditions_json))
         /\ path_to_database' = path
         /\ file_upload_id' = None
         /\ pc' = IF path # None THEN "upload_file" ELSE "get_datasource_id"
         /\ UNCHANGED result

\* A direct call of update_datasource_from_hyper_file.
CallUpdateFromHyperFile ==
    /\ pc = "idle"
    /\ \E path \in {None, Path("temp.hyper", 1)},
          match_columns \in MatchColumnsInputs,
          match_conditions_json \in RawConditions,
          changeset_table_name \in TableNames,
          action \in ActionInputs :
          /\ op' = [name |-> "update_datasource_from_hyper_file",
                    sql_query |-> None,
                    match_columns |-> match_columns,
                    match_conditions_json |-> match_conditions_json,
                    changeset_table_name |-> changeset_table_name,
                    action |-> action,
                    publish_mode |-> "none"]
          /\ UdfhfEnter(path, match_columns, match_conditions_json,
                        changeset_table_name, action)
    /\ UNCHANGED <<output_hyper_files, publish_mode, ds_id, async_job_id,
                   waitVars, serverVars, calls, fsVars>>

\* Lines 441-446: REST.upload_file.
UploadFile ==
    /\ pc = "upload_file"
    /\ file_upload_id' = Str("upload-1")
    /\ calls' = Append(calls, [api |-> "upload_file", file |-> path_to_database])
    /\ pc' = "get_datasource_id"
    /\ UNCHANGED <<op, output_hyper_files, publish_mode, path_to_database,
                   json_request, ds_id, async_job_id, waitVars, serverVars,
                   fsVars, result>>

\* Line 447 and get_datasource_id (lines 125-138).
GetDatasourceId ==
    /\ pc = "get_datasource_id"
    /\ calls' = Append(calls, Call("datasources.get"))
    /\ IF "Orders" \in datasources
       THEN /\ ds_id' = Str("ds-Orders")
            /\ pc' = "patch_datasource"
            /\ UNCHANGED result
       ELSE /\ result' = Raised("TableauResourceNotFoundError", <<"Orders">>)
            /\ pc' = "done"
            /\ UNCHANGED ds_id
    /\ UNCHANGED <<op, output_hyper_files, publish_mode, path_to_database,
                   json_request, file_upload_id, async_job_id, waitVars,
                   serverVars, fsVars>>

\* Lines 448-455: REST.patch_datasource; the server creates a job and the
\* client enters wait_for_async_job (lines 145-148).
PatchDatasource ==
    /\ pc = "patch_datasource"
    /\ \E id \in JobIds, code \in FinishCodes :
          /\ server_job' = [t |-> "Job", id |-> id, completed_at |-> None,
                            finish_code |-> code]
          /\ async_job_id' = Str(id)
    /\ calls' = Append(calls, [api |-> "patch_datasource",
                               datasource_id |-> ds_id,
                               file_upload_id |-> file_upload_id,
                               request_json |-> json_request])
    /\ completed_at' = None
    /\ finish_code' = None
    /\ pc' = "poll"
    /\ UNCHANGED <<op, output_hyper_files, publish_mode, path_to_database,
                   json_request, file_upload_id, ds_id, returned_code, sleeps,
                   datasources, staging_bucket, fsVars, result>>

(***************************************************************************)
(* wait_for_async_job (base_extractor.py, lines 140-160).                  *)
(***************************************************************************)
IsPoll(c) == c.api = "jobs.get_by_id"

Polls == {i \in DOMAIN calls : IsPoll(calls[i])}

PendingPolls == {i \in Polls : calls[i].completed_at = None}

\* Lines 149-156: one get_by_id; the locals take what the server reports.
PollJob ==
    /\ pc = "poll"
    /\ server_job.completed_at # None \/ Cardinality(PendingPolls) < MaxPolls
    /\ completed_at' = server_job.completed_at
    /\ finish_code' = server_job.finish_code
    /\ calls' = Append(calls, [api |-> "jobs.get_by_id",
                               job_id |-> async_job_id,
                               completed_at |-> server_job.completed_at,
                               finish_code |-> server_job.finish_code])
    /\ pc' = "sleep"
    /\ UNCHANGED <<op, output_hyper_files, publish_mode, udfhfVars,
                   returned_code, sleeps, serverVars, fsVars, result>>

\* Line 157 and the loop test of line 148.
Sleep ==
    /\ pc = "sleep"
    /\ sleeps' = sleeps + 1
    /\ pc' = IF LoopContinues(completed_at) THEN "poll" ELSE "wait_return"
    /\ UNCHANGED <<op, output_hyper_files, publish_mode, udfhfVars,
                   completed_at, finish_code, returned_code, serverVars,
                   calls, fsVars, result>>

\* Where control goes when update_datasource_from_hyper_file returns.
AfterPatchReturn ==
    IF op.name = "update_datasource_from_hyper_file"
          \/ (op.name = "delete_from_datasource" /\ op.sql_query = None)
    THEN "return"
    ELSE "for_changeset_files"

\* Lines 159-160 and 456-462: wait_for_async_job returns finish_code and
\* update_datasource_from_hyper_file raises unless it is "0".
WaitReturn ==
    /\ pc = "wait_return"
    /\ returned_code' = finish_code
    /\ IF JobSucceeded(finish_code)
       THEN /\ pc' = AfterPatchReturn
            /\ UNCHANGED result
       ELSE /\ result' = Raised("TableauJobError",
                                <<Format(async_job_id), Format(finish_code)>>)
            /\ pc' = "done"
    /\ UNCHANGED <<op, output_hyper_files, publish_mode, udfhfVars,
                   completed_at, finish_code, sleeps, serverVars, calls,
                   fsVars>>

\* The operation returns to its caller.
Return ==
    /\ pc = "return"
    /\ result' = Returned
    /\ pc' = "done"
    /\ UNCHANGED <<op, output_hyper_files, publish_mode, udfhfVars, waitVars,
                   serverVars, calls, fsVars>>

\* The server finishes the job: PENDING to TERMINAL, with some finish code.
ServerCompleteJob ==
    /\ server_job # None
    /\ server_job.completed_at = None
    /\ \E code \in FinishCodes :
          server_job' = [server_job EXCEPT
                           !.completed_at = Str("2020-06-01T00:00:00Z"),
                           !.finish_code = code]
    /\ UNCHANGED <<pc, op, output_hyper_files, publish_mode, udfhfVars,
                   waitVars, datasources, staging_bucket, calls, fsVars,
                   result>>

(***************************************************************************)
(* update_datasource and delete_from_datasource                            *)
(* (bigquery_extractor.py, lines 255-328).                                 *)
(***************************************************************************)
\* The part of both operations that runs the changeset query.
RunChangesetQuery(name, match_columns, match_conditions_json, table) ==
    \E estimate \in Estimates, schema \in Schemas, n_rows \in RowCounts :
       LET r == query_to_hyper_files(estimate, schema, n_rows, table.v) IN
       /\ op' = [name |-> name,
                 sql_query |-> Str("SELECT"),
                 match_columns |-> match_columns,
                 match_conditions_json |-> match_conditions_json,
                 changeset_table_name |-> table,
                 action |-> "none",
                 publish_mode |-> "none"]
       /\ calls' = calls \o r.calls
       /\ IF r.outcome = Returned
          THEN /\ output_hyper_files' = r.files
               /\ local_files' = local_files \cup {r.files[i].name : i \in DOMAIN r.files}
               /\ pc' = "for_changeset_files"
               /\ UNCHANGED result
          ELSE /\ result' = r.outcome
               /\ pc' = "done"
               /\ UNCHANGED <<output_hyper_files, local_files>>

\* update_datasource, line 276.
CallUpdateDatasource ==
    /\ pc = "idle"
    /\ \E match_columns \in MatchColumnsInputs,
          match_conditions_json \in RawConditions :
          RunChangesetQuery("update_datasource", match_columns,
                            match_conditions_json, Str("updated_rows"))
    /\ UNCHANGED <<publish_mode, udfhfVars, waitVars, serverVars,
                   bucket_blobs, blobs>>

\* delete_from_datasource, lines 313-320: without a query the one call of
\* update_datasource_from_hyper_file is made at once, with the action
\* parameter left at its default.
CallDeleteFromDatasource ==
    /\ pc = "idle"
    /\ \E sql_query \in {None, Str("SELECT")},
          match_columns \in MatchColumnsInputs,
          match_conditions_json \in RawConditions :
          IF sql_query = None
          THEN /\ op' = [name |-> "delete_from_datasource",
                         sql_query |-> None,
                         match_columns |-> match_columns,
                         match_conditions_json |-> match_conditions_json,
                         changeset_table_name |-> Str("deleted_rowids"),
                         action |-> "none",
                         publish_mode |-> "none"]
               /\ UdfhfEnter(None, None, match_conditions_json, None,
                             DefaultAction)
               /\ UNCHANGED <<output_hyper_files, calls, local_files>>
          ELSE /\ RunChangesetQuery("delete_from_datasource", match_columns,
                                    match_conditions_json,
                                    Str("deleted_rowids"))
               /\ UNCHANGED <<path_to_database, json_request, file_upload_id>>
    /\ UNCHANGED <<publish_mode, ds_id, async_job_id, waitVars, serverVars,
                   bucket_blobs, blobs>>

\* The for loops of lines 277-284 and 321-328: the next changeset file goes
\* to update_datasource_from_hyper_file, the action left at its default.
ForChangesetFile ==
    /\ pc = "for_changeset_files"
    /\ output_hyper_files # <<>>
    /\ UdfhfEnter(Head(output_hyper_files), op.match_columns,
                  op.match_conditions_json, op.changeset_table_name,
                  DefaultAction)
    /\ output_hyper_files' = Tail(output_hyper_files)
    /\ UNCHANGED <<op, publish_mode, ds_id, async_job_id, waitVars,
                   serverVars, calls, fsVars>>

ForChangesetFilesExit ==
    /\ pc = "for_changeset_files"
    /\ output_hyper_files = <<>>
    /\ pc' = "return"
    /\ UNCHANGED <<op, output_hyper_files, publish_mode, udfhfVars, waitVars,
                   serverVars, calls, fsVars, result>>

(***************************************************************************)
(* The publishing operations (bigquery_extractor.py, lines 171-253).       *)
(***************************************************************************)
\* A first iteration that ignores the caller's argument.
FirstPublishMode_Append(requested) == "Append"

\* Later iterations that keep the mode of the first.
ModeAfterPublish_Kept == publish_mode

\* The publish mode of the first iteration: the caller's argument.
FirstPublishMode(requested) == requested

\* The publish mode of the iterations after the first (lines 193, 238, 253).
ModeAfterPublish == "Append"

\* The part of load_sample and append_to_datasource that runs the query.
RunPublishQuery(name, mode) ==
    \E estimate \in Estimates, schema \in Schemas, n_rows \in RowCounts :
       LET r == query_to_hyper_files(estimate, schema, n_rows, "Orders") IN
       /\ op' = [name |-> name,
                 sql_query |-> Str("SELECT"),
                 match_columns |-> None,
                 match_conditions_json |-> None,
                 changeset_table_name |-> None,
                 action |-> "none",
                 publish_mode |-> mode]
       /\ publish_mode' = FirstPublishMode(mode)
       /\ calls' = calls \o r.calls
       /\ IF r.outcome = Returned
          THEN /\ output_hyper_files' = r.files
               /\ local_files' = local_files \cup {r.files[i].name : i \in DOMAIN r.files}
               /\ pc' = "for_publish"
               /\ UNCHANGED result
          ELSE /\ result' = r.outcome
               /\ pc' = "done"
               /\ UNCHANGED <<output_hyper_files, local_files>>

\* load_sample, lines 189-190.
CallLoadSample ==
    /\ pc = "idle"
    /\ \E mode \in PublishModes : RunPublishQuery("load_sample", mode)
    /\ UNCHANGED <<udfhfVars, waitVars, serverVars, bucket_blobs, blobs>>

\* append_to_datasource, line 250.
CallAppendToDatasource ==
    /\ pc = "idle"
    /\ \E mode \in PublishModes : RunPublishQuery("append_to_datasource", mode)
    /\ UNCHANGED <<udfhfVars, waitVars, serverVars, bucket_blobs, blobs>>

\* publish_hyper_file (base_extractor.py, lines 241-267): one publish call,
\* which the server accepts or answers with an error.
PublishCall(file, mode) ==
    [api |-> "datasources.publish", file |-> file, mode |-> mode]

\* One iteration of the for loops of lines 191-193 and 251-253.
PublishFile ==
    /\ pc = "for_publish"
    /\ output_hyper_files # <<>>
    /\ calls' = Append(calls, PublishCall(Head(output_hyper_files), publish_mode))
    /\ \E accepted \in BOOLEAN :
          IF accepted
          THEN /\ publish_mode' = ModeAfterPublish
               /\ output_hyper_files' = Tail(output_hyper_files)
               /\ UNCHANGED <<pc, result>>
          ELSE /\ result' = Raised("ServerResponseError", <<>>)
               /\ pc' = "done"
               /\ UNCHANGED <<publish_mode, output_hyper_files>>
    /\ UNCHANGED <<op, udfhfVars, waitVars, serverVars, fsVars>>

PublishFilesExit ==
    /\ pc = "for_publish"
    /\ output_hyper_files = <<>>
    /\ pc' = "return"
    /\ UNCHANGED <<op, output_hyper_files, publish_mode, udfhfVars, waitVars,
                   serverVars, calls, fsVars, result>>

(***************************************************************************)
(* export_load (bigquery_extractor.py, lines 195-238).                     *)
(***************************************************************************)
BlobRowCounts == {1, MAX_ROWS_PER_FILE + 1}

Blob(i, rows) == [t |-> "Blob", index |-> i, rows |-> rows]

\* What a bulk export may leave under the staging prefix.
BlobLists ==
    UNION {{[i \in 1..k |-> Blob(i, rows[i])] : rows \in [1..k -> BlobRowCounts]} :
           k \in 0..MaxBlobs}

\* Lines 206-224: the table definition, then the export job.
CallExportLoad ==
    /\ pc = "idle"
    /\ \E mode \in PublishModes, schema \in Schemas, exported \in BlobLists :
          /\ op' = [name |-> "export_load",
                    sql_query |-> None,
                    match_columns |-> None,
                    match_conditions_json |-> None,
                    changeset_table_name |-> None,
                    action |-> "none",
                    publish_mode |-> mode]
          /\ publish_mode' = FirstPublishMode(mode)
          /\ IF hyper_table_definition(schema, "Extract").t = "raised"
             THEN /\ calls' = Append(calls, Call("bq.get_table"))
                  /\ result' = hyper_table_definition(schema, "Extract")
                  /\ pc' = "done"
                  /\ UNCHANGED <<bucket_blobs, blobs>>
             ELSE IF staging_bucket = Unset
             THEN /\ calls' = Append(calls, Call("bq.get_table"))
                  /\ result' = Raised("AttributeError", <<"staging_bucket">>)
                  /\ pc' = "done"
                  /\ UNCHANGED <<bucket_blobs, blobs>>
             ELSE /\ calls' = calls \o <<Call("bq.get_table"),
                                         Call("bq.extract_table"),
                                         Call("storage.list_blobs")>>
                  /\ bucket_blobs' = {exported[i] : i \in DOMAIN exported}
                  /\ blobs' = exported
                  /\ pc' = "for_blobs"
                  /\ UNCHANGED result
    /\ UNCHANGED <<output_hyper_files, udfhfVars, waitVars, serverVars,
                   local_files>>

\* Lines 226-234: download and decompress the blob, convert it, remove the
\* delimited file.
ConvertBlob ==
    /\ pc = "for_blobs"
    /\ blobs # <<>>
    /\ calls' = Append(calls, [api |-> "blob.download", blob |-> Head(blobs)])
    /\ output_hyper_files' = csv_to_hyper_files(Head(blobs).rows)
    /\ local_files' = (local_files \cup {"temp.hyper"}) \ {"temp.csv", "temp.csv.gz"}
    /\ blobs' = Tail(blobs)
    /\ pc' = "for_export_files"
    /\ UNCHANGED <<op, publish_mode, udfhfVars, waitVars, serverVars,
                   bucket_blobs, result>>

BlobsExit ==
    /\ pc = "for_blobs"
    /\ blobs = <<>>
    /\ pc' = "return"
    /\ UNCHANGED <<op, output_hyper_files, publish_mode, udfhfVars, waitVars,
                   serverVars, calls, fsVars, result>>

\* Lines 235-238: publish the file, remove it, force Append from now on.
ExportPublishFile ==
    /\ pc = "for_export_files"
    /\ output_hyper_files # <<>>
    /\ calls' = Append(calls, PublishCall(Head(output_hyper_files), publish_mode))
    /\ \E accepted \in BOOLEAN :
          IF accepted
          THEN /\ local_files' = local_files \ {Head(output_hyper_files).name}
               /\ publish_mode' = ModeAfterPublish
               /\ output_hyper_files' = Tail(output_hyper_files)
               /\ UNCHANGED <<pc, result>>
          ELSE /\ result' = Raised("ServerResponseError", <<>>)
               /\ pc' = "done"
               /\ UNCHANGED <<publish_mode, output_hyper_files, local_files>>
    /\ UNCHANGED <<op, udfhfVars, waitVars, serverVars, bucket_blobs, blobs>>

ExportFilesExit ==
    /\ pc = "for_export_files"
    /\ output_hyper_files = <<>>
    /\ pc' = "for_blobs"
    /\ UNCHANGED <<op, output_hyper_files, publish_mode, udfhfVars, waitVars,
                   serverVars, calls, fsVars, result>>

(***************************************************************************)
(* The specification.                                                      *)
(***************************************************************************)
\* A value handed back to the caller.
ReturnedValue(value) == [t |-> "returned", value |-> value]

\* A direct call of hyper_table_definition (bigquery_extractor.py, lines
\* 97-136) on a source table; no remote call is made.
CallHyperTableDefinition ==
    /\ pc = "idle"
    /\ \E schema \in SourceTables :
          LET target_schema == hyper_table_definition(schema, "Extract")
          IN  /\ op' = [name |-> "hyper_table_definition", schema |-> schema]
              /\ result' = IF target_schema.t = "raised"
                           THEN target_schema
                           ELSE ReturnedValue(target_schema)
    /\ pc' = "done"
    /\ UNCHANGED <<output_hyper_files, publish_mode, udfhfVars, waitVars,
                   serverVars, calls, fsVars>>

\* What the Hyper engine can do with one writer call: it fails while the
\* schema and table are created, it fails while the rows are inserted, or
\* it completes.
HyperOutcomes == {"create_failed", "insert_failed", "ok"}

\* The row counts the engine can report for a file that received n_rows
\* rows: all of them, or one fewer.
StoredCounts(n_rows) == {n_rows} \cup {n \in {n_rows - 1} : n >= 0}

Writers == {"query_result_to_hyper_files", "csv_to_hyper_files"}

\* The files a writer returns (base_extractor.py, lines 170-173, 202 and
\* 213-216, 239).
WriterFiles(writer, n_rows) ==
    IF writer = "query_result_to_hyper_files"
    THEN query_result_to_hyper_files(n_rows)
    ELSE csv_to_hyper_files(n_rows)

\* A direct call of one of the two writers (base_extractor.py, lines
\* 162-239).  An engine error leaves the with blocks as HyperException;
\* otherwise the count the engine reports (lines 194-199, 231-237) goes to
\* the log and the list holding temp.hyper is returned.
CallWriter ==
    /\ pc = "idle"
    /\ \E writer \in Writers, n_rows \in RowCounts, outcome \in HyperOutcomes :
          \E row_count \in StoredCounts(n_rows) :
             /\ op' = [name |-> writer, rows_written |-> n_rows,
                       outcome |-> outcome,
                       row_count |-> IF outcome = "ok"
                                     THEN row_count ELSE 0]
             /\ IF outcome = "ok"
                THEN /\ result' = ReturnedValue(WriterFiles(writer, n_rows))
                     /\ output_hyper_files' = WriterFiles(writer, n_rows)
                ELSE /\ result' = Raised("HyperException", <<outcome>>)
                     /\ output_hyper_files' = output_hyper_files
    /\ local_files' = local_files \cup {"temp.hyper"}
    /\ pc' = "done"
    /\ UNCHANGED <<publish_mode, udfhfVars, waitVars, serverVars, calls,
                   bucket_blobs, blobs>>

Next ==
    \/ CallUpdateFromHyperFile
    \/ CallHyperTableDefinition
    \/ CallWriter
    \/ CallUpdateDatasource
    \/ CallDeleteFromDatasource
    \/ CallLoadSample
    \/ CallAppendToDatasource
    \/ CallExportLoad
    \/ ForChangesetFile
    \/ ForChangesetFilesExit
    \/ UploadFile
    \/ GetDatasourceId
    \/ PatchDatasource
    \/ PollJob
    \/ Sleep
    \/ WaitReturn
    \/ Return
    \/ ServerCompleteJob
    \/ PublishFile
    \/ PublishFilesExit
    \/ ConvertBlob
    \/ BlobsExit
    \/ ExportPublishFile
    \/ ExportFilesExit

Spec == Init /\ [][Next]_vars

(***************************************************************************)
(* The command line wrapper (extractor_cli.py).  The script parses its     *)
(* arguments, prompts for the password and constructs the extractor; the   *)
(* commands of lines 177-243, the exclusive_args tests of lines 200 and    *)
(* 221 among them, come after the construction.                            *)
(***************************************************************************)
Commands == {"load_sample", "export_load", "append", "update", "delete"}

\* The namespace parse_args returns, as far as the commands read it; an
\* option that was not given is None.
CliArgs ==
    [command : Commands,
     sql : {None, Str("SELECT")},
     sqlfile : {None, Str("changes.sql")},
     match_columns : {None, List(<<<<"id", "row_id">>>>)},
     match_conditions_json : {None, Str("{\"op\": \"=\"}")}]

\* The parameters of BaseExtractor.__init__ after self
\* (base_extractor.py, lines 88-95).
BaseInitParams ==
    <<"tableau_username", "tableau_password", "tableau_hostname",
      "tableau_project", "tableau_site_id">>

\* The arguments BigQueryExtractor.__init__ hands to it
\* (bigquery_extractor.py, lines 50-57).
SuperInitPositional ==
    <<"tableau_username", "tableau_password", "tableau_hostname",
      "tableau_project", "staging_bucket">>

SuperInitKeywords == {"tableau_site_id"}

\* Python's argument binding: a call raises TypeError when it passes more
\* positional arguments than there are parameters, a keyword that names no
\* parameter, or a keyword for a parameter a positional argument filled.
BindingRaises(params, n_positional, keywords) ==
    \/ n_positional > Len(params)
    \/ \E k \in keywords :
          \/ \A i \in DOMAIN params : params[i] # k
          \/ \E i \in 1..n_positional : params[i] = k

\* The state when the script starts: no extractor exists yet.
InitCli ==
    /\ pc = "cli_parse_args"
    /\ op = [name |-> "none"]
    /\ output_hyper_files = <<>>
    /\ publish_mode = "CreateNew"
    /\ path_to_database = None
    /\ json_request = None
    /\ file_upload_id = None
    /\ ds_id = None
    /\ async_job_id = None
    /\ completed_at = None
    /\ finish_code = None
    /\ returned_code = Unset
    /\ server_job = None
    /\ datasources \in {{}, {"Orders"}}
    /\ staging_bucket = Unset
    /\ calls = <<>>
    /\ sleeps = 0
    /\ local_files = {}
    /\ bucket_blobs = {}
    /\ blobs = <<>>
    /\ result = Running

\* Lines 156-166: parse_args and the password prompt.
CliParseArgs ==
    /\ pc = "cli_parse_args"
    /\ \E args \in CliArgs : op' = [name |-> "extractor_cli", args |-> args]
    /\ pc' = "cli_construct"
    /\ UNCHANGED <<output_hyper_files, publish_mode, udfhfVars, waitVars,
                   serverVars, calls, fsVars, result>>

\* Lines 167-175: the extractor is constructed.  BigQueryExtractor.__init__
\* calls BaseExtractor.__init__; where that call binds, the base
\* constructor signs in and looks the project up (base_extractor.py, lines
\* 105-107) and the script goes on to the commands.
CliConstructExtractor ==
    /\ pc = "cli_construct"
    /\ IF BindingRaises(BaseInitParams, Len(SuperInitPositional),
                        SuperInitKeywords)
       THEN /\ result' = Raised("TypeError", <<"tableau_site_id">>)
            /\ pc' = "done"
            /\ calls' = calls
       ELSE /\ result' = result
            /\ pc' = "cli_commands"
            /\ calls' = calls \o <<Call("auth.sign_in"), Call("projects.get")>>
    /\ UNCHANGED <<op, output_hyper_files, publish_mode, udfhfVars, waitVars,
                   serverVars, fsVars>>

NextCli ==
    \/ CliParseArgs
    \/ CliConstructExtractor

SpecCli == InitCli /\ [][NextCli]_vars

(***************************************************************************)
(* Views of the call history used by the properties.                       *)
(***************************************************************************)
CallsOf(api) == {i \in DOMAIN calls : calls[i].api = api}

PatchCalls == CallsOf("patch_datasource")

UploadCalls == CallsOf("upload_file")

PublishCalls == CallsOf("datasources.publish")

\* The position of call i among the calls of the set idx.
Rank(idx, i) == Cardinality({j \in idx : j <= i})

LastPoll == CHOOSE i \in Polls : \A j \in Polls : j <= i

\* The only action document of a patch call.
Doc(i) == calls[i].request_json.actions[1]

\* The two forms of delete_from_datasource, and the operations that patch.
ConditionalDelete == op.name = "delete_from_datasource" /\ op.sql_query = None

KeyedDelete == op.name = "delete_from_datasource" /\ op.sql_query # None

ChangesetOp ==
    op.name \in {"update_datasource_from_hyper_file", "update_datasource",
                 "delete_from_datasource"}

\* C1: update_datasource_from_hyper_file returns normally only when the
\* finish code observed at job completion is exactly "0"; for every other
\* finish code, a missing one included, it fails with a job-failure error
\* that carries the job id and the finish code.
C1_ReturnsOnlyOnFinishCodeZero ==
    /\ returned_code # Unset =>
          /\ Polls # {}
          /\ IF calls[LastPoll].finish_code = [t |-> "str", v |-> "0"]
             THEN result.t # "raised"
             ELSE /\ result.t = "raised"
                  /\ result.type = "TableauJobError"
                  /\ result.args[1] = server_job.id
                  /\ result.args[2] =
                        (IF calls[LastPoll].finish_code = None
                         THEN "None"
                         ELSE calls[LastPoll].finish_code.v)
    /\ (ChangesetOp /\ result = Returned) =>
          /\ returned_code = [t |-> "str", v |-> "0"]
          /\ calls[LastPoll].completed_at # None

\* The job ended with a missing finish code and the direct call failed.
C1_Witness ==
    /\ op.name = "update_datasource_from_hyper_file"
    /\ returned_code = None
    /\ result.t = "raised"

\* C2: wait_for_async_job never returns while the job is pending: while no
\* poll has observed completed_at set, the client is still in the poll loop
\* and has not returned.
C2_NeverReturnsWhilePending ==
    (async_job_id # None /\ \A i \in Polls : calls[i].completed_at = None) =>
        /\ pc \in {"poll", "sleep"}
        /\ returned_code = Unset
        /\ result = Running

\* The wait returned after polls that saw the job pending.
C2_Witness ==
    /\ returned_code # Unset
    /\ Cardinality(PendingPolls) >= 2
    /\ calls[LastPoll].completed_at # None

\* The rows of the query result that the writer last consumed.
RowsRead == calls[Len(calls)].rows

\* query_result_to_hyper_files has just returned: its result is untouched.
WriterJustReturned ==
    /\ pc \in {"for_changeset_files", "for_publish"}
    /\ calls # <<>>
    /\ calls[Len(calls)].api = "bq.list_rows"

RECURSIVE SumRows(_)
SumRows(files) ==
    IF files = <<>> THEN 0 ELSE Head(files).rows + SumRows(Tail(files))

CeilDiv(n, c) == (n + c - 1) \div c

\* C3: for a row sequence of length N and cap C,
\* query_result_to_hyper_files returns ceil(N/C) files (one file when N is
\* 0), whose row counts sum to N and none of which holds more than C rows.
C3_FilesAreCapped ==
    WriterJustReturned =>
        /\ Len(output_hyper_files) =
              (IF RowsRead = 0 THEN 1 ELSE CeilDiv(RowsRead, MAX_ROWS_PER_FILE))
        /\ SumRows(output_hyper_files) = RowsRead
        /\ \A i \in DOMAIN output_hyper_files :
              output_hyper_files[i].rows <= MAX_ROWS_PER_FILE

\* C4: a delete with sql_query=None and a raw condition submits exactly one
\* patch request, whose single action has kind delete, names no source
\* schema or table, has the raw condition as its condition, and goes
\* without a file upload.
C4_ConditionalDeleteDocument ==
    (ConditionalDelete /\ op.match_conditions_json # None) =>
        /\ UploadCalls = {}
        /\ Cardinality(PatchCalls) <= 1
        /\ result = Returned => Cardinality(PatchCalls) = 1
        /\ \A i \in PatchCalls :
              /\ Len(calls[i].request_json.actions) = 1
              /\ Doc(i).action = "delete"
              /\ "source_schema" \notin DOMAIN Doc(i)
              /\ "source_table" \notin DOMAIN Doc(i)
              /\ Doc(i).condition = op.match_conditions_json
              /\ calls[i].file_upload_id = None

\* C5: a keyed delete uploads each changeset file and then submits for it an
\* action of kind delete that names the changeset table as its source and
\* the server-side extract as its target; it never submits an update.
C5_KeyedDeleteDocument ==
    KeyedDelete =>
        \A i \in PatchCalls :
            /\ Doc(i).action = "delete"
            /\ Doc(i).action # "update"
            /\ "source_table" \in DOMAIN Doc(i)
            /\ Doc(i).source_table = op.changeset_table_name
            /\ Doc(i).target_schema = "Extract"
            /\ Doc(i).target_table = "Extract"
            /\ \E u \in UploadCalls : u < i /\ calls[i].file_upload_id # None

\* The condition the spec derives from a non-empty list of column pairs.
DerivedFromPairs(items) ==
    IF Len(items) = 1
    THEN [op |-> "=", source_col |-> items[1][1], target_col |-> items[1][2]]
    ELSE [op |-> "and",
          args |-> [k \in 1..Len(items) |->
                      [op |-> "=", source_col |-> items[k][1],
                       target_col |-> items[k][2]]]]

BothSupplied ==
    /\ ChangesetOp
    /\ op.match_columns # None
    /\ op.match_conditions_json # None

\* C6: when both match_columns and a raw condition are supplied to an update
\* or delete, the condition of every submitted action is the one derived
\* from match_columns alone.
C6_MatchColumnsOverride ==
    (BothSupplied /\ op.match_columns # List(<<>>)) =>
        \A i \in PatchCalls :
            Doc(i).condition = DerivedFromPairs(op.match_columns.items)

\* The match_columns that reached update_datasource_from_hyper_file.
MatchColumnsPassed == IF ConditionalDelete THEN None ELSE op.match_columns

\* C7: for a non-empty sequence of column pairs the built condition is the
\* bare leaf of the pair when there is one pair, and one "and" whose args
\* are the leaves of the pairs in input order when there are more.
C7_BuiltCondition ==
    (ChangesetOp /\ json_request # None /\ MatchColumnsPassed # None) =>
        LET items == MatchColumnsPassed.items
            cond == json_request.actions[1].condition
        IN  /\ Len(items) >= 1
            /\ Len(items) = 1 =>
                  cond = [op |-> "=", source_col |-> items[1][1],
                          target_col |-> items[1][2]]
            /\ Len(items) >= 2 =>
                  /\ DOMAIN cond = {"op", "args"}
                  /\ cond.op = "and"
                  /\ Len(cond.args) = Len(items)
                  /\ \A k \in 1..Len(items) :
                        cond.args[k] = [op |-> "=", source_col |-> items[k][1],
                                        target_col |-> items[k][2]]

\* A document was built from two column pairs.
C7_Witness ==
    /\ op.name = "update_datasource"
    /\ op.match_columns # None
    /\ json_request # None
    /\ Len(op.match_columns.items) = 2
    /\ PatchCalls # {}

\* C8: called with an action other than "UPDATE" or "DELETE",
\* update_datasource_from_hyper_file raises the unknown-action error and
\* makes no remote call.
C8_UnknownActionError ==
    (op.name = "update_datasource_from_hyper_file"
        /\ op.action \notin {"UPDATE", "DELETE"}) =>
        /\ calls = <<>>
        /\ result = Raised("Exception", <<"Unknown action", op.action>>)

DownloadCalls == CallsOf("blob.download")

\* The publish mode the k-th publish call of an operation must carry.
ExpectedMode(k) == IF k = 1 THEN op.publish_mode ELSE "Append"

\* C9: in load_sample and export_load files are published in the order they
\* were produced; the first publish of the operation carries the caller's
\* publish mode and every later one, across all exported blobs, Append.
C9_FirstRequestedThenAppend ==
    /\ op.name \in {"load_sample", "export_load"} =>
          \A i \in PublishCalls :
             calls[i].mode = ExpectedMode(Rank(PublishCalls, i))
    /\ op.name = "export_load" =>
          /\ \A i \in DownloadCalls :
                calls[i].blob.index = Rank(DownloadCalls, i)
          /\ \A i \in PublishCalls :
                /\ i - 1 \in DownloadCalls
                /\ calls[i].file.rows = calls[i - 1].blob.rows
    /\ op.name = "load_sample" =>
          \A i \in PublishCalls :
             /\ calls[i - 1].api = "bq.list_rows"
             /\ calls[i].file.rows = calls[i - 1].rows

\* export_load returned after publishing two files, the first as CreateNew.
C9_Witness ==
    /\ op.name = "export_load"
    /\ op.publish_mode = "CreateNew"
    /\ Cardinality(PublishCalls) >= 2
    /\ result = Returned

\* C10 as stated: every publish call of the append operation, the first
\* included and whatever publish_mode is passed, uses Append.
C10_AlwaysAppend ==
    op.name = "append_to_datasource" =>
        \A i \in PublishCalls : calls[i].mode = "Append"

\* C10 as amended: the first publish call of the append operation uses the
\* publish_mode argument, whose default is Append; every later one uses
\* Append.
C10_ArgumentThenAppend ==
    op.name = "append_to_datasource" =>
        /\ \A i \in PublishCalls :
              calls[i].mode =
                 (IF Rank(PublishCalls, i) = 1 THEN op.publish_mode ELSE "Append")
        /\ op.publish_mode = "Append" =>
              \A i \in PublishCalls : calls[i].mode = "Append"

\* The append operation returned after publishing with the default mode.
C10_Witness ==
    /\ op.name = "append_to_datasource"
    /\ op.publish_mode = "Append"
    /\ PublishCalls # {}
    /\ result = Returned

(***************************************************************************)
(* Properties of the size ceiling and of the staged artifacts.             *)
(***************************************************************************)
QueryOp ==
    \/ op.name \in {"load_sample", "append_to_datasource", "update_datasource"}
    \/ KeyedDelete

DryRunCalls == CallsOf("bq.query.dry_run")

C12_ExportCleansUp ==
    (op.name = "export_load" /\ pc = "done") =>
        /\ local_files = {}
        /\ bucket_blobs = {}

(***************************************************************************)
(* Properties of the table definition.                                     *)
(***************************************************************************)
TableDefinitionCall == op.name = "hyper_table_definition" /\ pc = "done"

Unmapped(field) == field.field_type \notin DOMAIN SqlTypeMap

\* The columns the loop cannot translate, and the first of them.
Offending(schema) ==
    {i \in DOMAIN schema : schema[i].mode = "REPEATED" \/ Unmapped(schema[i])}

FirstOffending(schema) ==
    CHOOSE i \in Offending(schema) : \A j \in Offending(schema) : i <= j

\* C13: hyper_table_definition fails with the unsupported-mode error
\* (HyperSQLTypeMappingError) on a REPEATED column whatever its native type,
\* mapped or not, and with the distinct unsupported-type error (LookupError)
\* on a non-REPEATED column of unmapped type.  The column that decides is
\* the first one the loop cannot translate.
C13_RepeatedIsModeError ==
    (TableDefinitionCall /\ Offending(op.schema) # {}) =>
        LET field == op.schema[FirstOffending(op.schema)]
        IN  /\ result.t = "raised"
            /\ result.type = IF field.mode = "REPEATED"
                             THEN "HyperSQLTypeMappingError"
                             ELSE "LookupError"

\* C14: hyper_table_definition either fails and returns nothing, or returns
\* a definition with exactly one column per source column, in source order,
\* each with the source name, the mapped type of its native type and
\* nullable exactly when the mode is not REQUIRED; it fails exactly when
\* some column cannot be translated.
C14_CompleteDefinitionOrFailure ==
    TableDefinitionCall =>
        IF Offending(op.schema) # {}
        THEN result.t = "raised"
        ELSE /\ result.t = "returned"
             /\ result.value.table_name = <<"Extract", "Extract">>
             /\ DOMAIN result.value.columns = DOMAIN op.schema
             /\ \A i \in DOMAIN op.schema :
                   LET col == result.value.columns[i]
                       field == op.schema[i]
                   IN  /\ col.name = field.name
                       /\ col.type = SqlTypeMap[field.field_type]
                       /\ col.nullable = (field.mode # "REQUIRED")

\* A two-column definition was returned, one column REQUIRED and one not.
C14_Witness ==
    /\ TableDefinitionCall
    /\ result.t = "returned"
    /\ Len(op.schema) = 2
    /\ op.schema[1].mode = "REQUIRED"
    /\ op.schema[2].mode = "NULLABLE"
    /\ op.schema[1].field_type # op.schema[2].field_type

(***************************************************************************)
(* Properties of the order of steps.                                       *)
(***************************************************************************)
\* C15: in wait_for_async_job a sleep happens only after a poll that saw
\* completed_at unset; after the terminal poll the loop exits without
\* sleeping, so whenever the client is not about to sleep the number of
\* sleeps equals the number of pending polls.
C15_SleepsEqualPendingPolls ==
    pc # "sleep" => sleeps = Cardinality(PendingPolls)

\* C16: when the datasource name is unknown the update or keyed delete
\* fails with the resource-not-found error before any file upload: no
\* upload-file call precedes the failed lookup.
C16_LookupFailsBeforeUpload ==
    ((op.name = "update_datasource" \/ KeyedDelete)
        /\ result.t = "raised"
        /\ result.type = "TableauResourceNotFoundError") =>
        \A i \in CallsOf("datasources.get") : \A j \in UploadCalls : i < j

(***************************************************************************)
(* Properties of the command line wrapper.                                 *)
(***************************************************************************)
Given(arg) == arg # None

\* Both members of a mutually exclusive pair were given to a command that
\* reads the pair.
ExclusiveViolation(args) ==
    \/ /\ args.command \in {"append", "update", "delete"}
       /\ Given(args.sql) /\ Given(args.sqlfile)
    \/ /\ args.command \in {"update", "delete"}
       /\ Given(args.match_columns) /\ Given(args.match_conditions_json)

KeyedOp == op.name = "update_datasource" \/ KeyedDelete

\* The poll at position i saw the job terminal with finish code "0".
SawSuccess(i) ==
    /\ i \in Polls
    /\ calls[i].completed_at # None
    /\ calls[i].finish_code = Str("0")

\* The upload, lookup and patch calls after position i, if any.
StageCallsAfter(i) ==
    {j \in UploadCalls \cup CallsOf("datasources.get") \cup PatchCalls : j > i}

FairSpec ==
    /\ Spec
    /\ WF_vars(PollJob)
    /\ WF_vars(Sleep)
    /\ WF_vars(WaitReturn)
    /\ WF_vars(ServerCompleteJob)

InWait == pc \in {"poll", "sleep", "wait_return"}

\* C19: provided the server eventually reports completed_at set and the
\* polling keeps being scheduled, wait_for_async_job eventually returns;
\* and it has no other exit: while every poll so far saw the job pending,
\* a step of the wait leads only to another step of the same wait.
C19_WaitEventuallyReturns ==
    /\ (pc = "poll") ~> (returned_code # Unset)
    /\ [][(InWait /\ pc # "wait_return"
                  /\ \A i \in Polls : calls[i].completed_at = None)
             => (pc' \in {"poll", "sleep"} /\ result' = Running
                    /\ returned_code' = Unset)]_vars

\* The wait returned after it had seen the job pending.
C19_Witness ==
    /\ returned_code # Unset
    /\ pc \notin {"poll", "sleep", "wait_return"}
    /\ Cardinality(PendingPolls) >= 1
    /\ sleeps >= 2

(***************************************************************************)
(* Properties of the extract files on disk.                                *)
(***************************************************************************)
Operations ==
    {"load_sample", "export_load", "append_to_datasource",
     "update_datasource", "delete_from_datasource"}

\* C20: in every operation each extract file is deleted by the publish or
\* patch step once its transfer succeeded, so after a successful operation
\* no extract file it produced remains on disk.
C20_NoExtractFileRemains ==
    (op.name \in Operations /\ result = Returned) => local_files = {}

(***************************************************************************)
(* Properties of the extract file writers.                                 *)
(***************************************************************************)
WriterCall == op.name \in Writers /\ pc = "done"

\* C21: whenever query_result_to_hyper_files or csv_to_hyper_files returns,
\* the stored row count of every file in the result was found equal to the
\* number of rows written; when the counts differ, or schema creation or
\* insertion fails, the call fails and returns no file.
C21_ReturnedFilesAreVerified ==
    WriterCall =>
        IF op.outcome = "ok" /\ op.row_count = op.rows_written
        THEN result.t = "returned"
        ELSE result.t = "raised"

(***************************************************************************)
(* Properties of the submitted action document.                            *)
(***************************************************************************)
UpdateOrDelete == op.name \in {"update_datasource", "delete_from_datasource"}

\* C22: every action document an update or delete submits to the patch
\* endpoint carries a non-null condition, whatever sql_query, match_columns
\* and raw condition were passed: the operation either submits a leaf or
\* composite condition or fails before the patch request.
C22_ConditionIsNeverNull ==
    UpdateOrDelete => \A i \in PatchCalls : Doc(i).condition # None

\* The action document names a source table: source-schema and source-table
\* are present and the table is not null.
NamesSourceTable(doc) ==
    /\ "source_schema" \in DOMAIN doc
    /\ "source_table" \in DOMAIN doc
    /\ doc.source_table # None

\* C23: in every patch request submitted by
\* update_datasource_from_hyper_file the action document names a source
\* table exactly when a changeset file was uploaded for that request: the
\* upload handle is present if and only if source-schema and source-table
\* are present and non-null.
C23_SourceTableIffUpload ==
    \A i \in PatchCalls :
        (calls[i].file_upload_id # None) <=> NamesSourceTable(Doc(i))

(***************************************************************************)
(* Properties of the construction.                                         *)
(***************************************************************************)
\* C24: constructing a BigQueryExtractor with valid credentials and a known
\* project completes with the session signed in once, the project id
\* resolved and the staging bucket recorded on the extractor, so that a
\* later export_load reads a staging bucket that construction has set.
C24_ConstructionCompletes ==
    (op.name = "extractor_cli" /\ pc # "cli_construct") =>
        /\ result.t # "raised"
        /\ Cardinality(CallsOf("auth.sign_in")) = 1
        /\ Cardinality(CallsOf("projects.get")) = 1
        /\ staging_bucket # Unset

====
